---- MODULE Spec2Model ----
(***************************************************************************)
(* YouTube comment text-to-speech highlighter (src/content.js).            *)
(*                                                                         *)
(* The document is a set of comment roots (#content-text elements).  A     *)
(* root holds a sequence of child elements ("blocks": the spans and links  *)
(* the renderer emits) and every block holds a sequence of inline items:   *)
(* text nodes and span.tts-highlight markers.  A text node has an identity *)
(* (id); the text node inside a marker is never referenced by the segment  *)
(* map and carries id 0.  Text is a sequence of one-character strings.     *)
(*                                                                         *)
(* Every handler of the class (toggleTTS, the utterance callbacks, the     *)
(* navigation timer) is one action: the handler runs to completion on the  *)
(* single-threaded event loop.  The speech engine and the host renderer    *)
(* are the environment: they choose which event is delivered next.         *)
(***************************************************************************)
EXTENDS Integers, Sequences, FiniteSets, TLC

VARIABLES
    dom,                    \* root -> [attached, blocks]: the comment subtrees
    textNodesMap,           \* this.textNodesMap: sequence of [node, start, end]
    currentUtterance,       \* this.currentUtterance: utterance id or NoUtterance
    currentHighlightSpan,   \* this.currentHighlightSpan: "null" or "span"
    currentCommentElement,  \* this.currentCommentElement: a root or NoElement
    isCancelling,           \* this.isCancelling
    playing,                \* the roots whose button carries class tts-playing
    engine,                 \* speechSynthesis: utterances whose terminal event is pending
    errorLogged,            \* whether the last handler called console.error
    preMark                 \* the last marker made: its root, the root's text
                            \* just before highlightWord ran, and whether the
                            \* word ran past the end of the resolved node

vars == <<dom, textNodesMap, currentUtterance, currentHighlightSpan,
          currentCommentElement, isCancelling, playing, engine, errorLogged,
          preMark>>

(***************************************************************************)
(* Bounds of the model.                                                    *)
(***************************************************************************)
MaxUtterances == 2      \* utterances whose terminal event is still pending

Roots == {"A", "B"}
RootOrder == <<"A", "B">>
NoElement == "null"
NoUtterance == 0

(***************************************************************************)
(* Bind(v, F) is F(v) with v evaluated once: LET x == v IN F(x), for a v   *)
(* that is costly to compute and used several times in F.                  *)
(***************************************************************************)
Bind(v, F(_)) == CHOOSE y \in {F(x) : x \in {v}} : TRUE

(***************************************************************************)
(* Strings.                                                                *)
(***************************************************************************)
Min(a, b) == IF a < b THEN a ELSE b
Max(a, b) == IF a > b THEN a ELSE b

\* !s.trim(): the string is empty or holds white space only
IsBlank(s) == \A i \in DOMAIN s : s[i] = " "

RECURSIVE TrimStart(_)
TrimStart(s) == IF s # <<>> /\ Head(s) = " " THEN TrimStart(Tail(s)) ELSE s

RECURSIVE TrimEnd(_)
TrimEnd(s) ==
    IF s # <<>> /\ s[Len(s)] = " " THEN TrimEnd(SubSeq(s, 1, Len(s) - 1)) ELSE s

\* String.prototype.trim
Trim(s) == TrimEnd(TrimStart(s))

\* String.prototype.substring(a, b) for 0 <= a: both ends are clamped to the length
Substring(s, a, b) ==
    LET lo == Min(Min(a, b), Len(s))
        hi == Min(Max(a, b), Len(s))
    IN  SubSeq(s, lo + 1, hi)

(***************************************************************************)
(* The document tree.                                                      *)
(***************************************************************************)
TextNode(i, s) == [hl |-> FALSE, id |-> i, s |-> s]
Marker(s) == [hl |-> TRUE, id |-> 0, s |-> s]

RECURSIVE Flatten(_)
\* the inline items of a root in document order
Flatten(blocks) ==
    IF blocks = <<>> THEN <<>> ELSE Head(blocks) \o Flatten(Tail(blocks))

RECURSIVE ConcatText(_)
ConcatText(items) ==
    IF items = <<>> THEN <<>> ELSE Head(items).s \o ConcatText(Tail(items))

\* element.textContent of a root
TextContent(blocks) == ConcatText(Flatten(blocks))

RECURSIVE NormalizeItems(_)
\* Node.normalize() on one parent: empty text nodes are removed and adjacent
\* text nodes are merged into the first of them
NormalizeItems(items) ==
    IF items = <<>> THEN <<>>
    ELSE Bind(NormalizeItems(Tail(items)), LAMBDA t :
            LET h == Head(items)
            IN  IF ~h.hl /\ h.s = <<>> THEN t
                ELSE IF ~h.hl /\ t # <<>> /\ ~t[1].hl
                     THEN <<[h EXCEPT !.s = h.s \o t[1].s]>> \o Tail(t)
                     ELSE <<h>> \o t)

\* commentElement.normalize(): the whole subtree
Normalize(blocks) == [b \in DOMAIN blocks |-> NormalizeItems(blocks[b])]

HasMarker(items) == \E i \in DOMAIN items : items[i].hl

\* the span.tts-highlight elements under a root
Markers(blocks) == SelectSeq(Flatten(blocks), LAMBDA it : it.hl)

RECURSIVE DocumentItems(_, _)
\* the inline items of the roots that are attached to the document
DocumentItems(d, rs) ==
    IF rs = <<>> THEN <<>>
    ELSE (IF d[Head(rs)].attached THEN Flatten(d[Head(rs)].blocks) ELSE <<>>)
         \o DocumentItems(d, Tail(rs))

\* the markers commentsSection.querySelectorAll('.tts-highlight') finds
MarkersInDocument(d) == SelectSeq(DocumentItems(d, RootOrder), LAMBDA it : it.hl)

\* ids of the text nodes of a subtree
NodeIds(blocks) ==
    LET f == Flatten(blocks) IN {f[i].id : i \in {j \in DOMAIN f : ~f[j].hl}}

SetMax(S) == IF S = {} THEN 0 ELSE CHOOSE x \in S : \A y \in S : y <= x

\* an id no text node carries: document.createTextNode makes a new node
NewId(d) == SetMax(UNION {NodeIds(d[r].blocks) : r \in Roots}) + 1

\* document.contains(node) for a text node
ContainsNode(d, n) == \E r \in Roots : d[r].attached /\ n \in NodeIds(d[r].blocks)

(***************************************************************************)
(* The methods of YouTubeTTS.  S is the state the handler works on: the    *)
(* fields of the object, the document and the speech engine.               *)
(***************************************************************************)
Self ==
    [dom |-> dom, textNodesMap |-> textNodesMap,
     currentUtterance |-> currentUtterance,
     currentHighlightSpan |-> currentHighlightSpan,
     currentCommentElement |-> currentCommentElement,
     isCancelling |-> isCancelling, playing |-> playing, engine |-> engine,
     errorLogged |-> FALSE]

RECURSIVE JoinWithSpace(_)
\* text += node.textContent + ' ' over the accepted nodes
JoinWithSpace(items) ==
    IF items = <<>> THEN <<>>
    ELSE Head(items).s \o <<" ">> \o JoinWithSpace(Tail(items))

\* extractCommentText: every text node that is not blank, the text of a marker
\* included, each followed by a space; the result is trimmed
extractCommentText(blocks) ==
    Trim(JoinWithSpace(SelectSeq(Flatten(blocks), LAMBDA it : ~IsBlank(it.s))))

RECURSIVE MapFrom(_, _)
\* the loop of buildTextNodesMap: no separator between two nodes
MapFrom(items, offset) ==
    IF items = <<>> THEN <<>>
    ELSE <<[node |-> Head(items).id, start |-> offset,
            end |-> offset + Len(Head(items).s)]>>
         \o MapFrom(Tail(items), offset + Len(Head(items).s))

\* the walker without the test of the parent's class: the leaf inside a marker
\* is accepted
AcceptedNodesWithMarker(blocks) ==
    SelectSeq(Flatten(blocks), LAMBDA it : ~IsBlank(it.s))

\* the text nodes buildTextNodesMap's walker accepts
AcceptedNodes(blocks) ==
    SelectSeq(Flatten(blocks), LAMBDA it : ~IsBlank(it.s) /\ ~it.hl)

\* buildTextNodesMap(r): normalizes the subtree, then maps its text nodes
buildTextNodesMap(S, r) ==
    Bind(Normalize(S.dom[r].blocks), LAMBDA nb :
        [S EXCEPT !.dom[r].blocks = nb,
                  !.textNodesMap = MapFrom(AcceptedNodes(nb), 0)])

\* the places <<root, block, item>> of the inline items of the tree
Positions(d) ==
    UNION {UNION {{<<r, b, i>> : i \in DOMAIN d[r].blocks[b]} :
                     b \in DOMAIN d[r].blocks} : r \in Roots}

ItemAt(d, p) == d[p[1]].blocks[p[2]][p[3]]

\* the markers commentsSection.querySelectorAll('.tts-highlight') returns
MarkerPositions(d) ==
    {p \in Positions(d) : d[p[1]].attached /\ ItemAt(d, p).hl}

\* the turn with an empty text node put in the place of the span
ClearMarkerDropsWord(d, p) ==
    [d EXCEPT ![p[1]].blocks[p[2]] =
        NormalizeItems([@ EXCEPT ![p[3]] = TextNode(NewId(d), <<>>)])]

\* the turn without line 342: the fragments of the split are not merged
ClearMarkerKeepsFragments(d, p) ==
    [d EXCEPT ![p[1]].blocks[p[2]][p[3]] = TextNode(NewId(d), @.s)]

\* one turn of the forEach: the span is replaced by a new text node holding
\* span.textContent, then parent.normalize()
ClearMarker(d, p) ==
    [d EXCEPT ![p[1]].blocks[p[2]] =
        NormalizeItems([@ EXCEPT ![p[3]] = TextNode(NewId(d), @.s)])]

\* clearAllHighlights without its forEach: the markers stay where they are
ClearDocumentKeepsMarkers(d) == d

RECURSIVE ClearDocument(_)
\* the forEach of clearAllHighlights, over the markers attached to the document
ClearDocument(d) ==
    Bind(MarkerPositions(d), LAMBDA ps :
        IF ps = {} THEN d
        ELSE Bind(ClearMarker(d, CHOOSE p \in ps : TRUE),
                  LAMBDA d1 : ClearDocument(d1)))

clearAllHighlights(S) ==
    Bind([S EXCEPT !.dom = ClearDocument(S.dom),
                   !.currentHighlightSpan = "null",
                   !.textNodesMap = <<>>],
         LAMBDA S1 :
            IF /\ S1.currentCommentElement # NoElement
               /\ S1.dom[S1.currentCommentElement].attached
            THEN buildTextNodesMap(S1, S1.currentCommentElement)
            ELSE S1)

\* resetAllButtons that leaves the class tts-playing on the buttons
resetAllButtonsKeepsPlaying(S) == S

resetAllButtons(S) == [S EXCEPT !.playing = {}]

\* speechSynthesis.cancel(): every utterance of the engine is dropped; its
\* terminal event is delivered later, on the event queue
Cancel(S) ==
    [S EXCEPT !.engine = [i \in DOMAIN S.engine |->
                             [S.engine[i] EXCEPT !.cancelled = TRUE]]]

RECURSIVE Scan(_, _, _)
\* the loop of lines 293-299 from entry k on: it breaks at the first entry
\* with start <= charIndex < end
Scan(map, charIndex, k) ==
    IF k > Len(map) THEN 0
    ELSE IF charIndex >= map[k].start /\ charIndex < map[k].end THEN k
         ELSE Scan(map, charIndex, k + 1)

\* the scan with charIndex <= entry.end for its test
FindEntryInclusive(map, charIndex) ==
    LET hits == {i \in DOMAIN map :
                    charIndex >= map[i].start /\ charIndex <= map[i].end}
    IN  IF hits = {} THEN 0 ELSE CHOOSE i \in hits : \A j \in hits : i <= j

\* the index of the entry highlightWord resolves charIndex to, or 0
FindEntry(map, charIndex) == Scan(map, charIndex, 1)

\* where text node n sits: <<root, block, item>>
Locate(d, n) ==
    CHOOSE p \in Positions(d) : ~ItemAt(d, p).hl /\ ItemAt(d, p).id = n

\* the split without line 322: the text after the word is not put back
SplitNodeDropsAfter(d, n, nodeOffset, charLength) ==
    Bind(Locate(d, n), LAMBDA p :
        LET items  == d[p[1]].blocks[p[2]]
            text   == items[p[3]].s
            before == Substring(text, 0, nodeOffset)
            word   == Substring(text, nodeOffset, nodeOffset + charLength)
        IN  [d EXCEPT ![p[1]].blocks[p[2]] =
                SubSeq(items, 1, p[3] - 1)
                \o <<TextNode(NewId(d), before), Marker(word)>>
                \o SubSeq(items, p[3] + 1, Len(items))])

\* lines 306-323: the target is replaced by before, span(word), after
SplitNode(d, n, nodeOffset, charLength) ==
    Bind(Locate(d, n), LAMBDA p :
        LET items  == d[p[1]].blocks[p[2]]
            text   == items[p[3]].s
            before == Substring(text, 0, nodeOffset)
            word   == Substring(text, nodeOffset, nodeOffset + charLength)
            after  == Substring(text, nodeOffset + charLength, Len(text))
            k      == NewId(d)
        IN  [d EXCEPT ![p[1]].blocks[p[2]] =
                SubSeq(items, 1, p[3] - 1)
                \o <<TextNode(k, before), Marker(word), TextNode(k + 1, after)>>
                \o SubSeq(items, p[3] + 1, Len(items))])

\* lines 289-331, the map being S.textNodesMap
MarkWord(S, charIndex, charLength, r) ==
    Bind(FindEntry(S.textNodesMap, charIndex), LAMBDA e :
        IF e = 0 \/ ~ContainsNode(S.dom, S.textNodesMap[e].node) THEN S
        ELSE Bind([S EXCEPT !.dom = SplitNode(S.dom, S.textNodesMap[e].node,
                                        charIndex - S.textNodesMap[e].start,
                                        charLength),
                            !.textNodesMap = <<>>],
                  LAMBDA S3 : [buildTextNodesMap(S3, r)
                                  EXCEPT !.currentHighlightSpan = "span"]))

\* lines 277-282: the state in which highlightWord resolves charIndex
FreshMap(S, r) ==
    Bind(clearAllHighlights(S), LAMBDA S1 :
        IF S1.textNodesMap = <<>> \/ ~S1.dom[r].attached
        THEN buildTextNodesMap(S1, r)
        ELSE S1)

highlightWord(S, charIndex, charLength, r) ==
    Bind(FreshMap(S, r), LAMBDA S2 :
        IF S2.textNodesMap = <<>> THEN S2
        ELSE MarkWord(S2, charIndex, charLength, r))

\* lines 114-121 and 127-134 (the same statements): the terminal-cancel protocol
StopNarration(S) ==
    Bind(resetAllButtons(Cancel([S EXCEPT !.isCancelling = TRUE])), LAMBDA S1 :
        [clearAllHighlights(S1) EXCEPT !.currentUtterance = NoUtterance,
                                       !.textNodesMap = <<>>,
                                       !.currentCommentElement = NoElement,
                                       !.isCancelling = FALSE])

\* new SpeechSynthesisUtterance: the reference to an utterance is its place in
\* the engine's list, where speak() is about to put it
NewUtterance(S) == Len(S.engine) + 1

\* lines 150-215: the session of root r, whose text commentText is handed to
\* the engine
Speak(S, r, commentText) ==
    Bind([S EXCEPT !.currentUtterance = NewUtterance(S),
                   !.currentCommentElement = r],
         LAMBDA S2 :
            [buildTextNodesMap(S2, r) EXCEPT !.engine = Append(@,
                [root |-> r, text |-> commentText,
                 started |-> FALSE, cancelled |-> FALSE])])

\* the start without line 148: an empty text is handed to the engine too
StartNarrationSpeaksEmpty(S, r) ==
    IF ~S.dom[r].attached THEN S
    ELSE Bind([S EXCEPT !.dom[r].blocks = Normalize(@)], LAMBDA S1 :
            Speak(S1, r, extractCommentText(S1.dom[r].blocks)))

\* lines 137-215: build the session for root r and hand its text to the engine
StartNarration(S, r) ==
    IF ~S.dom[r].attached THEN S
    ELSE Bind([S EXCEPT !.dom[r].blocks = Normalize(@)], LAMBDA S1 :
            Bind(extractCommentText(S1.dom[r].blocks), LAMBDA commentText :
                IF commentText = <<>> THEN S1
                ELSE Speak(S1, r, commentText)))

\* toggleTTS with lines 126-135 moved behind line 215: the new session is
\* built first and the running one is stopped afterwards
toggleTTSStopsLast(S, r) ==
    IF r \in S.playing THEN StopNarration(S)
    ELSE Bind(StartNarration(S, r), LAMBDA S1 :
            IF S.currentUtterance # NoUtterance THEN StopNarration(S1) ELSE S1)

toggleTTS(S, r) ==
    IF r \in S.playing THEN StopNarration(S)
    ELSE Bind(IF S.currentUtterance # NoUtterance THEN StopNarration(S) ELSE S,
              LAMBDA S1 : StartNarration(S1, r))

\* utterance.onstart
onstart(S, u) == [S EXCEPT !.playing = @ \cup {u.root}]

\* utterance.onend
onend(S) ==
    Bind(resetAllButtons(S), LAMBDA S1 :
        [clearAllHighlights(S1) EXCEPT !.currentUtterance = NoUtterance,
                                       !.textNodesMap = <<>>,
                                       !.currentCommentElement = NoElement])

\* utterance.onerror
onerror(S) == onend([S EXCEPT !.errorLogged = ~S.isCancelling])

\* utterance.onboundary, with the commentElement of the closure
onboundary(S, u, name, charIndex, charLength) ==
    IF name = "word" /\ S.dom[u.root].attached
    THEN highlightWord(S, charIndex, charLength, u.root)
    ELSE IF ~S.dom[u.root].attached
         THEN Bind(Cancel([S EXCEPT !.isCancelling = TRUE]), LAMBDA S1 :
                 [clearAllHighlights(S1) EXCEPT !.isCancelling = FALSE])
         ELSE S

\* lines 371-379: the stop of checkUrlChange, which leaves textNodesMap alone
StopForNavigation(S) ==
    Bind(resetAllButtons(Cancel([S EXCEPT !.isCancelling = TRUE])), LAMBDA S1 :
        [clearAllHighlights(S1) EXCEPT !.currentUtterance = NoUtterance,
                                       !.currentCommentElement = NoElement,
                                       !.isCancelling = FALSE])

\* checkUrlChange once the URL has changed
checkUrlChange(S) ==
    [(IF S.currentUtterance # NoUtterance THEN StopForNavigation(S) ELSE S)
        EXCEPT !.textNodesMap = <<>>]

(***************************************************************************)
(* The space-joined variant (src/unnamed/part_000): the same extraction,   *)
(* and a segment map that counts one separator after every text node.      *)
(***************************************************************************)
\* the text nodes both walkers of the variant accept
SpacedAccepted(blocks) == SelectSeq(Flatten(blocks), LAMBDA it : ~IsBlank(it.s))

\* extractCommentText of the variant
SpacedText(blocks) == Trim(JoinWithSpace(SpacedAccepted(blocks)))

RECURSIVE SpacedMapFrom(_, _)
\* the loop of the variant's buildTextNodesMap: offset += text.length + 1
SpacedMapFrom(items, offset) ==
    IF items = <<>> THEN <<>>
    ELSE <<[node |-> Head(items).id, start |-> offset,
            end |-> offset + Len(Head(items).s)]>>
         \o SpacedMapFrom(Tail(items), offset + Len(Head(items).s) + 1)

\* buildTextNodesMap of the variant, which does not normalize
SpacedMap(blocks) == SpacedMapFrom(SpacedAccepted(blocks), 0)

(***************************************************************************)
(* Node identity.  Only equality of node references is observable, so      *)
(* after every handler the text nodes are renumbered in document order; a  *)
(* reference to a node that is in no subtree any more becomes 0.           *)
(***************************************************************************)
RECURSIVE IdOrder(_, _)
IdOrder(d, rs) ==
    IF rs = <<>> THEN <<>>
    ELSE SelectSeq(Flatten(d[Head(rs)].blocks), LAMBDA it : ~it.hl)
         \o IdOrder(d, Tail(rs))

Rank(order, n) ==
    IF \E i \in DOMAIN order : order[i].id = n
    THEN CHOOSE i \in DOMAIN order : order[i].id = n
    ELSE 0

Renumber(S) ==
    Bind(IdOrder(S.dom, RootOrder), LAMBDA order :
        [S EXCEPT
           !.dom = [r \in Roots |-> [S.dom[r] EXCEPT !.blocks =
                      [b \in DOMAIN S.dom[r].blocks |->
                         [i \in DOMAIN S.dom[r].blocks[b] |->
                            LET it == S.dom[r].blocks[b][i]
                            IN  IF it.hl THEN it
                                ELSE [it EXCEPT !.id = Rank(order, it.id)]]]]],
           !.textNodesMap = [k \in DOMAIN S.textNodesMap |->
                      [S.textNodesMap[k] EXCEPT !.node = Rank(order, @)]]])

\* a tree with its text nodes numbered in document order
Canon(d) == Renumber([dom |-> d, textNodesMap |-> <<>>]).dom

(***************************************************************************)
(* The state machine.                                                      *)
(***************************************************************************)
\* comment subtrees as the renderer emits them, with node ids above k: two
\* text leaves in two elements, a leaf with leading white space, a blank leaf,
\* two adjacent text nodes the renderer left unmerged, and one plain leaf
VariedTrees(k) ==
    { << <<TextNode(k + 1, <<"a", " ">>)>>, <<TextNode(k + 2, <<"b">>)>> >>,
      << <<TextNode(k + 1, <<" ", "a">>)>> >>,
      << <<TextNode(k + 1, <<" ">>)>> >>,
      << <<TextNode(k + 1, <<"a">>), TextNode(k + 2, <<"b">>)>> >>,
      << <<TextNode(k + 1, <<"a", "b">>)>> >> }

\* a comment that is one short text leaf
PlainTrees(k) == { << <<TextNode(k + 1, <<"a">>)>> >> }

Without(q, i) == SubSeq(q, 1, i - 1) \o SubSeq(q, i + 1, Len(q))

\* preMark before any marker is made
NoMark == [root |-> NoElement, text |-> <<>>, past |-> FALSE, cleared |-> FALSE]

\* preMark after a handler that made no marker: it is kept until the handler
\* that removes the marker has run, and dropped by the handler after that
Carry(S) ==
    IF preMark.root = NoElement \/ preMark.cleared THEN NoMark
    ELSE IF Markers(S.dom[preMark.root].blocks) = <<>>
         THEN [preMark EXCEPT !.cleared = TRUE]
         ELSE preMark

Commit(S0, m) ==
    \E S \in {Renumber(S0)} :
        /\ dom' = S.dom
        /\ textNodesMap' = S.textNodesMap
        /\ currentUtterance' = S.currentUtterance
        /\ currentHighlightSpan' = S.currentHighlightSpan
        /\ currentCommentElement' = S.currentCommentElement
        /\ isCancelling' = S.isCancelling
        /\ playing' = S.playing
        /\ engine' = S.engine
        /\ errorLogged' = S.errorLogged
        /\ preMark' = m

\* the state after construction, the comments being rendered
InitWith(treesA, treesB) ==
    /\ \E ta \in treesA, tb \in treesB :
          dom = Renumber([dom |-> [r \in Roots |->
                            [attached |-> TRUE,
                             blocks |-> IF r = "A" THEN ta ELSE tb]],
                          textNodesMap |-> <<>>]).dom
    /\ textNodesMap = <<>>
    /\ currentUtterance = NoUtterance
    /\ currentHighlightSpan = "null"
    /\ currentCommentElement = NoElement
    /\ isCancelling = FALSE
    /\ playing = {}
    /\ engine = <<>>
    /\ errorLogged = FALSE
    /\ preMark = NoMark

Init == InitWith(PlainTrees(0), PlainTrees(2))

\* once its terminal event is delivered utterance i leaves the engine's list:
\* the later ones, and the references to them, move up
Release(S, i) ==
    [S EXCEPT !.engine = Without(@, i),
              !.currentUtterance = IF @ > i THEN @ - 1 ELSE @]

\* the click handler of the button of root r
ToggleTTS(r) ==
    \E S \in {toggleTTS(Self, r)} :
        /\ Len(S.engine) <= MaxUtterances
        /\ Commit(S, Carry(S))

\* the utterance the engine is speaking or will speak next
IsHead(i) == \A j \in 1..(i - 1) : engine[j].cancelled

OnStart(i) ==
    /\ ~engine[i].started
    /\ engine[i].cancelled \/ IsHead(i)
    /\ Commit([onstart(Self, engine[i]) EXCEPT !.engine[i].started = TRUE],
              Carry(Self))

\* the root that holds the marker highlightWord has just made
MarkedRoot(d) ==
    CHOOSE r \in Roots : d[r].attached /\ Markers(d[r].blocks) # <<>>

\* whether onboundary, leading from Self to S, has made a marker
MadeMarker(S, i, name) ==
    name = "word" /\ dom[engine[i].root].attached /\ S.currentHighlightSpan = "span"

OnBoundary(i, name, ci, cl) ==
    /\ engine[i].started
    /\ \E S \in {onboundary(Self, engine[i], name, ci, cl)} :
           Commit(S, IF MadeMarker(S, i, name)
                     THEN Bind(MarkedRoot(S.dom), LAMBDA r :
                             [root |-> r,
                              text |-> TextContent(dom[r].blocks),
                              past |-> Len(Markers(S.dom[r].blocks)[1].s) < cl,
                              cleared |-> FALSE])
                     ELSE Carry(S))

OnEnd(i) ==
    /\ engine[i].started
    /\ \E S \in {Release(onend(Self), i)} : Commit(S, Carry(S))

OnError(i) ==
    /\ engine[i].cancelled \/ IsHead(i)
    /\ \E S \in {Release(onerror(Self), i)} : Commit(S, Carry(S))

\* the setInterval callback of handleNavigation, the URL having changed
Navigate ==
    \E S \in {checkUrlChange(Self)} : Commit(S, Carry(S))

\* the host renderer detaches a comment from the document (one comment is
\* detached in a run, whichever it is)
RemoveRoot(r) ==
    /\ \A q \in Roots : dom[q].attached
    /\ Commit([Self EXCEPT !.dom[r].attached = FALSE], Carry(Self))

\* the host renderer removes a child element of a comment
RemoveBlock(r, b) ==
    /\ dom[r].attached
    /\ b \in DOMAIN dom[r].blocks
    /\ Commit([Self EXCEPT !.dom[r].blocks = Without(@, b)],
              IF preMark.root = r THEN NoMark ELSE Carry(Self))

\* the host renderer leaves an empty text node at the end of a child element
\* of a comment (at most one in an element)
InsertEmptyLeaf(r, b) ==
    /\ dom[r].attached
    /\ b \in DOMAIN dom[r].blocks
    /\ \A k \in DOMAIN dom[r].blocks[b] : dom[r].blocks[b][k].s # <<>>
    /\ Commit([Self EXCEPT !.dom[r].blocks[b] =
                               Append(@, TextNode(NewId(dom), <<>>))],
              IF preMark.root = r THEN NoMark ELSE Carry(Self))

\* the boundary events the engine may report for utterance i: every index of
\* the text and the index past its end, every length up to one past the text
Boundary(i) ==
    \/ \E cl \in 1..(Len(engine[i].text) + 1), ci \in 0..Len(engine[i].text) :
          OnBoundary(i, "word", ci, cl)
    \/ OnBoundary(i, "sentence", 0, 0)

Next ==
    \/ \E r \in Roots : ToggleTTS(r)
    \/ \E i \in DOMAIN engine : OnStart(i)
    \/ \E i \in DOMAIN engine : Boundary(i)
    \/ \E i \in DOMAIN engine : OnEnd(i)
    \/ \E i \in DOMAIN engine : OnError(i)
    \/ Navigate
    \/ \E r \in Roots : RemoveRoot(r)

Spec == Init /\ [][Next]_vars

\* One comment with every shape of subtree, narrated again and again while the
\* renderer removes its child elements
DocInit == InitWith(VariedTrees(0), PlainTrees(2))

DocNext ==
    \/ ToggleTTS("A")
    \/ \E i \in DOMAIN engine : OnStart(i)
    \/ \E i \in DOMAIN engine : Boundary(i)
    \/ \E i \in DOMAIN engine : OnEnd(i)
    \/ \E i \in DOMAIN engine : OnError(i)
    \/ \E b \in DOMAIN dom["A"].blocks : RemoveBlock("A", b)

DocSpec == DocInit /\ [][DocNext]_vars

\* The same comment while the renderer also leaves empty text nodes in it
RenderNext ==
    \/ DocNext
    \/ \E b \in DOMAIN dom["A"].blocks : InsertEmptyLeaf("A", b)

RenderSpec == DocInit /\ [][RenderNext]_vars

\* The engine delivers the events it owes: the start of the utterance it
\* speaks, and the end or error of every utterance that started or was cancelled
Terminal(i) == OnEnd(i) \/ OnError(i)

\* (a step is first told by what it does to the engine's list, then by the
\* handler)
Fairness ==
    /\ WF_vars(\E i \in DOMAIN engine :
                  engine' = [engine EXCEPT ![i].started = TRUE] /\ OnStart(i))
    /\ WF_vars(\E i \in DOMAIN engine :
                  engine' = Without(engine, i) /\ Terminal(i))

FairSpec == Spec /\ Fairness

(***************************************************************************)
(* Properties.                                                             *)
(***************************************************************************)
\* the text of the node a segment refers to
SegmentText(d, e) == ItemAt(d, Locate(d, e.node)).s

RECURSIVE MapText(_, _)
\* the texts of the segments, concatenated in map order
MapText(d, map) ==
    IF map = <<>> THEN <<>>
    ELSE SegmentText(d, Head(map)) \o MapText(d, Tail(map))

\* the utterances the engine speaks or holds in its queue
Live(q) == {i \in DOMAIN q : ~q[i].cancelled}

\* C1: whenever toggleTTS starts a narration, the string handed to the engine
\* is the concatenation, in map order, of the texts of the segments that
\* buildTextNodesMap produced for the session
C1_SpokenTextIsSegmentText ==
    [][Len(engine') > Len(engine)
          => engine'[Len(engine')].text = MapText(dom', textNodesMap')]_vars

\* C2: every word boundary event of the current narration that results in a
\* marker wraps the substring [charIndex, charIndex + charLength) of the string
\* that was handed to speak
C2_MarkerIsSpokenWord ==
    [][\A i \in DOMAIN engine :
          \A cl \in 1..(Len(engine[i].text) + 1), ci \in 0..Len(engine[i].text) :
             ( /\ i = currentUtterance
               /\ ~engine[i].cancelled
               /\ OnBoundary(i, "word", ci, cl)
               /\ MarkersInDocument(dom') # <<>> )
             => MarkersInDocument(dom')[1].s
                   = Substring(engine[i].text, ci, ci + cl)]_vars

\* C3: between two handlers the document holds at most one marker
C3_AtMostOneMarker == Len(MarkersInDocument(dom)) <= 1

\* C3, its case: one marker is in the document while the engine still owes
\* the events of a cancelled utterance next to the narration that replaced it
C3_Witness ==
    /\ Len(MarkersInDocument(dom)) = 1
    /\ \E i, j \in DOMAIN engine : engine[i].cancelled /\ ~engine[j].cancelled

\* C4: once the marker that highlightWord made has been cleared, the text of
\* the comment is what it was before highlightWord ran
C4_MarkThenClearKeepsText ==
    preMark.cleared => TextContent(dom[preMark.root].blocks) = preMark.text

\* C4, its case: a marker whose word ran past the end of the resolved node
\* has been made and cleared
C4_Witness == preMark.cleared /\ preMark.past /\ Len(preMark.text) >= 2

\* the session state is discarded
SessionDiscarded(cu, map, cce) ==
    cu = NoUtterance /\ map = <<>> /\ cce = NoElement

\* a handler that ends the current narration: its end or error event, the
\* click on its button while it shows as playing, or a boundary event that
\* finds the narrated root detached
EndsNarration ==
    \/ \E i \in DOMAIN engine : i = currentUtterance /\ Terminal(i)
    \/ \E r \in playing : currentCommentElement = r /\ ToggleTTS(r)
    \/ \E i \in DOMAIN engine :
          /\ i = currentUtterance
          /\ ~dom[engine[i].root].attached
          /\ Boundary(i)

\* a click on the button of another root while a narration is current
ReplacesNarration(b) ==
    /\ currentUtterance # NoUtterance
    /\ currentCommentElement \notin {NoElement, b}
    /\ b \notin playing
    /\ ToggleTTS(b)

\* C5: after every handler that ends a narration no marker is in the document
\* and the session state is discarded; after a replacement no marker is in the
\* document and the replaced utterance is not the current one
C5_TerminalCleanup ==
    [][/\ EndsNarration
          => /\ MarkersInDocument(dom') = <<>>
             /\ SessionDiscarded(currentUtterance', textNodesMap',
                                 currentCommentElement')
       /\ \A b \in Roots : ReplacesNarration(b)
          => /\ MarkersInDocument(dom') = <<>>
             /\ currentUtterance' # currentUtterance]_vars

\* C6: the engine never holds more than one utterance that has not been
\* cancelled
C6_AtMostOneLiveUtterance == Cardinality(Live(engine)) <= 1

\* C7: a click on the button of B while the narration of A is current cancels
\* every utterance of the engine, leaves no marker in the document, and the
\* session of B (its text, its segment map, its utterance) is the one built on
\* the cleaned tree and is not touched by the stop
C7_StopBeforeStart ==
    [][\A b \in Roots : ReplacesNarration(b)
          => /\ \A i \in DOMAIN engine : engine'[i].cancelled
             /\ MarkersInDocument(dom') = <<>>
             /\ IF dom[b].attached
                THEN /\ Len(engine') = Len(engine) + 1
                     /\ ~engine'[Len(engine')].cancelled
                     /\ engine'[Len(engine')].root = b
                     /\ engine'[Len(engine')].text
                           = extractCommentText(dom'[b].blocks)
                     /\ currentUtterance' = Len(engine')
                     /\ currentCommentElement' = b
                     /\ textNodesMap'
                           = MapFrom(AcceptedNodes(dom'[b].blocks), 0)
                ELSE SessionDiscarded(currentUtterance', textNodesMap',
                                      currentCommentElement')]_vars

\* C7, its case: the handler that removed the marker of A has left the
\* utterance of A cancelled and the session of B current
C7_Witness ==
    /\ preMark.cleared /\ preMark.root = "A"
    /\ Len(engine) = 2
    /\ engine[1].root = "A" /\ engine[1].cancelled
    /\ engine[2].root = "B" /\ ~engine[2].cancelled /\ ~engine[2].started
    /\ currentUtterance = 2
    /\ currentCommentElement = "B"

\* C8: the error event of an utterance the controller has cancelled is never
\* logged
C8_CancelledErrorNotLogged ==
    [][\A i \in DOMAIN engine :
          (engine[i].cancelled /\ OnError(i)) => ~errorLogged']_vars

Active(x) == \E i \in Live(engine) : engine[i].root = x

\* C10: a click on the button of X stops the narration of X when one is
\* active, and starts none; it starts one when none is active
C10_ToggleStopsOrStarts ==
    [][\A x \in Roots : ToggleTTS(x)
          => IF Active(x)
             THEN Live(engine') = {} /\ Len(engine') = Len(engine)
             ELSE dom[x].attached
                  => /\ Len(engine') = Len(engine) + 1
                     /\ engine'[Len(engine')].root = x
                     /\ ~engine'[Len(engine')].cancelled]_vars

\* the node that charIndex pointed into when the last handler returned has
\* been removed from the document, or the narrated root itself has
Removed(i, ci) ==
    \/ ~dom[engine[i].root].attached
    \/ \E e \in {FindEntry(textNodesMap, ci)} :
          e # 0 /\ textNodesMap[e].node = 0

\* C11: a word boundary event of the current narration that arrives after the
\* node at its charIndex, or the narrated root, was removed performs the
\* terminal cleanup: no marker is left or made, the speech is cancelled, the
\* buttons are idle and the session is discarded
C11_RemovedNodeEndsNarration ==
    [][\A i \in DOMAIN engine :
          \A cl \in 1..(Len(engine[i].text) + 1), ci \in 0..Len(engine[i].text) :
             ( /\ i = currentUtterance
               /\ ~engine[i].cancelled
               /\ Removed(i, ci)
               /\ OnBoundary(i, "word", ci, cl) )
             => /\ MarkersInDocument(dom') = <<>>
                /\ Live(engine') = {}
                /\ playing' = {}
                /\ SessionDiscarded(currentUtterance', textNodesMap',
                                    currentCommentElement')]_vars

\* C12: clearAllHighlights called while no marker is in the document leaves
\* the document tree as it is: the same text leaves with the same boundaries
C12_ClearWithoutMarkerIsNoOp ==
    MarkersInDocument(dom) = <<>> => clearAllHighlights(Self).dom = dom

\* highlightWord finds no segment for charIndex
NotFound(r, ci) == FindEntry(FreshMap(Self, r).textNodesMap, ci) = 0

\* C13: a word boundary event whose charIndex falls in no segment makes no
\* marker, changes nothing in the tree but for the removal of the marker that
\* was active, and neither cancels nor restarts the narration
C13_MissLeavesTreeAlone ==
    [][\A i \in DOMAIN engine :
          \A cl \in 1..(Len(engine[i].text) + 1), ci \in 0..Len(engine[i].text) :
             ( /\ dom[engine[i].root].attached
               /\ NotFound(engine[i].root, ci)
               /\ OnBoundary(i, "word", ci, cl) )
             => /\ MarkersInDocument(dom') = <<>>
                /\ dom' = Canon(ClearDocument(dom))
                /\ currentUtterance' = currentUtterance
                /\ engine' = engine]_vars

\* C14: toggleTTS on a root whose text leaves are all white space, or that
\* has no text leaf, creates no session: nothing is handed to the engine,
\* currentUtterance and currentCommentElement are null afterwards, no button
\* starts to show as playing and no marker is made
C14_EmptyTextStartsNoSession ==
    \A r \in Roots :
        extractCommentText(Normalize(dom[r].blocks)) = <<>>
        => \E S \in {toggleTTS(Self, r)} :
              /\ Len(S.engine) = Len(engine)
              /\ S.currentUtterance = NoUtterance
              /\ S.currentCommentElement = NoElement
              /\ S.playing \subseteq playing
              /\ MarkersInDocument(S.dom) = <<>>

\* C14, its case: the comment has lost its text while it was narrated, and a
\* click on its button has stopped the narration and started none
C14_Witness ==
    /\ dom["A"].attached
    /\ extractCommentText(Normalize(dom["A"].blocks)) = <<>>
    /\ engine # <<>>
    /\ Live(engine) = {}
    /\ currentUtterance = NoUtterance
    /\ playing = {}

\* the segments of a new run of buildTextNodesMap over root r, concatenated
Relinearized(d, r) ==
    Bind(buildTextNodesMap([dom |-> d, textNodesMap |-> <<>>], r),
         LAMBDA S : MapText(S.dom, S.textNodesMap))

\* a step of the reconciler: a marker is made or removed, and the renderer
\* has neither detached a comment nor removed a child element
ReconcilerMutation ==
    /\ MarkersInDocument(dom') # MarkersInDocument(dom)
    /\ \A r \in Roots : /\ dom'[r].attached = dom[r].attached
                        /\ Len(dom'[r].blocks) = Len(dom[r].blocks)

\* C15, as the spec states it: after every mutation by the reconciler, a new
\* run of buildTextNodesMap yields segments whose concatenated text is the
\* same as before the mutation, also while a marker is active
C15_RelinearizedTextKept ==
    [][ReconcilerMutation
          => \A r \in Roots : Relinearized(dom', r) = Relinearized(dom, r)]_vars

\* C15, amended: after every mutation by the reconciler the text content of
\* every comment is the same as before the mutation, also while a marker is
\* active (the segments of a new run leave out the text the marker wraps)
C15_TextContentKept ==
    [][ReconcilerMutation
          => \A r \in Roots :
                TextContent(dom'[r].blocks) = TextContent(dom[r].blocks)]_vars

\* C15, its case: a marker is active, the text content is what it was before
\* highlightWord ran, and the segments of a new run do not make up that text
C15_Witness ==
    /\ MarkersInDocument(dom) # <<>>
    /\ preMark.root = "A" /\ ~preMark.cleared
    /\ TextContent(dom["A"].blocks) = preMark.text
    /\ Relinearized(dom, "A") # preMark.text

\* the text leaves of a subtree, element by element
Leaves(blocks) ==
    [b \in DOMAIN blocks |-> [k \in DOMAIN blocks[b] |-> blocks[b][k].s]]

\* a normalized subtree without marker
IsPlainTree(blocks) ==
    blocks = Normalize(blocks) /\ Markers(blocks) = <<>>

\* C16: on a normalized tree without marker, highlightWord followed by
\* clearAllHighlights leaves the same text leaves, in number, order and text,
\* and no marker, whatever the split position
C16_ClearRestoresLeaves ==
    \A r \in Roots :
        (dom[r].attached /\ IsPlainTree(dom[r].blocks))
        => \A ci \in 0..Len(TextContent(dom[r].blocks)),
              cl \in 1..(Len(TextContent(dom[r].blocks)) + 1) :
              \E S \in {clearAllHighlights(highlightWord(Self, ci, cl, r))} :
                 /\ Leaves(S.dom[r].blocks) = Leaves(dom[r].blocks)
                 /\ Markers(S.dom[r].blocks) = <<>>

\* C16, its case: a marker whose word reached the end of its node was made in
\* a comment of two text leaves and has been cleared
C16_Witness ==
    /\ preMark.cleared
    /\ preMark.root = "A"
    /\ Len(dom["A"].blocks) = 2
    /\ IsPlainTree(dom["A"].blocks)
    /\ Len(textNodesMap) = 2

\* the segments are in ascending order without overlap, none is empty and
\* the first one starts at 0
Ordered(map) ==
    \A k \in DOMAIN map :
        /\ map[k].start < map[k].end
        /\ k = 1 => map[k].start = 0
        /\ k > 1 => map[k].start >= map[k - 1].end

\* every segment of S.textNodesMap is a text leaf of root r that is not white
\* space only and not inside a marker, and spans the length of its text
OverLeaves(S, r) ==
    \A k \in DOMAIN S.textNodesMap :
        \E p \in Positions(S.dom) :
            /\ p[1] = r
            /\ ~ItemAt(S.dom, p).hl
            /\ ItemAt(S.dom, p).id = S.textNodesMap[k].node
            /\ ~IsBlank(ItemAt(S.dom, p).s)
            /\ S.textNodesMap[k].end - S.textNodesMap[k].start
                  = Len(ItemAt(S.dom, p).s)

\* C17: every map buildTextNodesMap produces has non-empty segments in
\* ascending order without overlap, the first one at 0, and holds neither a
\* white-space-only leaf nor the leaf inside a marker
C17_SegmentsOrdered ==
    /\ Ordered(textNodesMap)
    /\ \A r \in Roots :
          \E S \in {buildTextNodesMap(Self, r)} :
              Ordered(S.textNodesMap) /\ OverLeaves(S, r)

\* C17, its case: a map was built while a marker is in the comment, whose
\* leaf it leaves out
C17_Witness ==
    /\ Markers(dom["A"].blocks) # <<>>
    /\ textNodesMap # <<>>
    /\ OverLeaves(Self, "A")

\* entry k holds charIndex
Hit(map, k, ci) == map[k].start <= ci /\ ci < map[k].end

\* FindEntry returns the first entry that holds charIndex, and 0 if none does
Resolves(map, ci) ==
    \E e \in {FindEntry(map, ci)} :
        IF \E k \in DOMAIN map : Hit(map, k, ci)
        THEN e \in DOMAIN map /\ Hit(map, e, ci)
             /\ \A j \in 1..(e - 1) : ~Hit(map, j, ci)
        ELSE e = 0

\* maps with a gap and with overlapping segments
OddMaps ==
    { <<[node |-> 1, start |-> 0, end |-> 1], [node |-> 2, start |-> 2, end |-> 3]>>,
      <<[node |-> 1, start |-> 0, end |-> 2], [node |-> 2, start |-> 1, end |-> 3]>>,
      <<[node |-> 1, start |-> 1, end |-> 3], [node |-> 2, start |-> 0, end |-> 2]>> }

\* the comment of two leaves "Hello " and "world!"
HelloWorld ==
    [dom |-> [r \in Roots |->
                [attached |-> TRUE,
                 blocks |->
                    IF r = "A"
                    THEN << <<TextNode(1, <<"H", "e", "l", "l", "o", " ">>)>>,
                            <<TextNode(2, <<"w", "o", "r", "l", "d", "!">>)>> >>
                    ELSE << <<TextNode(3, <<"a">>)>> >>]],
     textNodesMap |-> <<>>,
     currentUtterance |-> NoUtterance,
     currentHighlightSpan |-> "null",
     currentCommentElement |-> NoElement,
     isCancelling |-> FALSE, playing |-> {}, engine |-> <<>>,
     errorLogged |-> FALSE]

\* for "Hello " and "world!" the map is [0,6), [6,12); charIndex 6 resolves
\* to the second leaf, and with charLength 5 the marker wraps its first five
\* characters
ScenarioA ==
    /\ buildTextNodesMap(HelloWorld, "A").textNodesMap
          = <<[node |-> 1, start |-> 0, end |-> 6],
              [node |-> 2, start |-> 6, end |-> 12]>>
    /\ FindEntry(buildTextNodesMap(HelloWorld, "A").textNodesMap, 6) = 2
    /\ \E b \in {highlightWord(HelloWorld, 6, 5, "A").dom["A"].blocks[2]} :
          [k \in DOMAIN b |-> <<b[k].s, b[k].hl>>]
             = << <<(<<"w", "o", "r", "l", "d">>), TRUE>>, <<(<<"!">>), FALSE>> >>

\* C18: for every segment map and charIndex, resolution returns the first
\* segment with start <= charIndex < end, NotFound if there is none, and the
\* marker starts at nodeOffset = charIndex - start in the segment's node
C18_ResolvesFirstSegment ==
    /\ \A ci \in 0..4 :
          /\ Resolves(textNodesMap, ci)
          /\ \A m \in OddMaps : Resolves(m, ci)
    /\ \A r \in Roots :
          dom[r].attached
          => \E S \in {FreshMap(Self, r)} :
                \A ci \in 0..4 :
                   /\ Resolves(S.textNodesMap, ci)
                   /\ \E e \in {FindEntry(S.textNodesMap, ci)} :
                         e # 0
                         => Markers(MarkWord(S, ci, 1, r).dom[
                                       Locate(S.dom, S.textNodesMap[e].node)[1]
                                    ].blocks)
                               = <<Marker(Substring(
                                      SegmentText(S.dom, S.textNodesMap[e]),
                                      ci - S.textNodesMap[e].start,
                                      ci - S.textNodesMap[e].start + 1))>>
    /\ ScenarioA

\* C18, its case: a charIndex at the start of the second segment was resolved
\* and the marker is at the start of the second leaf
C18_Witness ==
    /\ Len(dom["A"].blocks) = 2
    /\ dom["A"].blocks[2] # <<>>
    /\ dom["A"].blocks[2][1].hl
    /\ ~HasMarker(dom["A"].blocks[1])
    /\ preMark.root = "A" /\ ~preMark.cleared

\* C19: in the space-joined variant every segment addresses, in the string
\* handed to speak, the characters of its node
C19_SpacedSeparatorsMatch ==
    \A r \in Roots :
        SpacedText(dom[r].blocks) # <<>>
        => \A k \in DOMAIN SpacedMap(dom[r].blocks) :
              Substring(SpacedText(dom[r].blocks),
                        SpacedMap(dom[r].blocks)[k].start,
                        SpacedMap(dom[r].blocks)[k].end)
                 = SpacedAccepted(dom[r].blocks)[k].s

\* C20: whenever highlightWord resolves a charIndex for a narration, every
\* segment of the map is a text leaf attached under the narrated root and
\* spans the length of the leaf's text
C20_MapFreshAtResolution ==
    \A i \in DOMAIN engine :
        (engine[i].started /\ ~engine[i].cancelled
         /\ dom[engine[i].root].attached)
        => \E S \in {FreshMap(Self, engine[i].root)} :
              OverLeaves(S, engine[i].root)

\* utterance i was cancelled and a newer narration has replaced it
Replaced(i) ==
    /\ engine[i].cancelled
    /\ currentUtterance \notin {NoUtterance, i}
    /\ ~engine[currentUtterance].cancelled

\* C21: an end or error event of an utterance that was cancelled and replaced
\* by a newer narration leaves the newer session's currentUtterance,
\* currentCommentElement and textNodesMap as they are and does not reset its
\* button
C21_StaleTerminalIsIgnored ==
    [][\A i \in DOMAIN engine :
          (Replaced(i) /\ Terminal(i))
          => /\ currentUtterance' # NoUtterance
             /\ currentCommentElement' = currentCommentElement
             /\ textNodesMap' = textNodesMap
             /\ playing' = playing]_vars

\* C22: a button shows as playing only if there is a session for its comment,
\* and the button of a session whose utterance has started shows as playing
C22_PlayingIffSession ==
    /\ \A r \in playing :
          currentUtterance # NoUtterance /\ currentCommentElement = r
    /\ (currentUtterance # NoUtterance /\ engine[currentUtterance].started)
          => currentCommentElement \in playing

\* C23: a boundary event of an utterance that is not the current one makes no
\* marker, and leaves the tree, the map, the session and the engine's
\* utterances as they are
C23_StaleBoundaryIsIgnored ==
    [][\A i \in DOMAIN engine :
          (engine[i].cancelled /\ i # currentUtterance /\ Boundary(i))
          => /\ currentHighlightSpan' # "span"
             /\ dom' = dom
             /\ textNodesMap' = textNodesMap
             /\ currentUtterance' = currentUtterance
             /\ currentCommentElement' = currentCommentElement
             /\ engine' = engine]_vars

====
